---- MODULE Spec2Model ----
(***************************************************************************)
(* Model of src/main.rs: an in-memory ledger served by two axum handlers,  *)
(* create_transaction (POST /clientes/:id/transacoes) and                  *)
(* get_bank_statement (GET /clientes/:id/extrato), over an AppState of two *)
(* tokio mutexes: user_state (HashMap<i32, User>) and statement_state      *)
(* (HashMap<i32, Statement>).                                              *)
(*                                                                         *)
(* Every request is a task.  A task takes the users mutex, then the        *)
(* statements mutex, runs the handler body and drops both guards.  The     *)
(* body is split at every read and write of shared state, so that mutual   *)
(* exclusion is something the mutexes provide and not the granularity of   *)
(* the model.                                                              *)
(*                                                                         *)
(* Not modelled: the realizado_em / data_extrato strings (Utc::now()), on  *)
(* which no handler branches, and JSON (de)serialisation, which happens    *)
(* before the handler is entered.                                          *)
(***************************************************************************)
EXTENDS Integers, Sequences, FiniteSets

VARIABLES
    users,              \* user_state: id -> [id, limite, saldo]
    statements,         \* statement_state: id -> Statement
    hash_seed,          \* RandomState of the statements HashMap
    overflow_checks,    \* build profile: TRUE = overflow panics, FALSE = wraps
    users_owner,        \* task holding the user_state mutex, or NoTask
    statements_owner,   \* task holding the statement_state mutex, or NoTask
    pc,                 \* position of every task in its handler
    req,                \* the request every task serves
    new_balance,        \* local `balance` / `new_balance` of create_transaction
    hack_id,            \* local `hack_id` of create_transaction
    balance,            \* local `balance` of get_bank_statement
    visited,            \* keys the for loop of get_bank_statement has pushed
    resp,               \* the handler's return value
    nreq                \* number of requests the server has received

vars == <<users, statements, hash_seed, overflow_checks, users_owner,
          statements_owner, pc, req, new_balance, hack_id, balance, visited, resp,
          nreq>>

----------------------------------------------------------------------------
(* Bounds *)

NProcs == 2
MaxReqs == 2
MaxHistory == 11
HashMod == 13

(* Program constants *)

MaxI32 == 2147483647
StatementLimit == 10
Limite1 == 100000
Limite2 == 80000
Limite3 == 1000000
Limite4 == 10000000
Limite5 == 500000

MinI32 == (-MaxI32) - 1

Procs == 1..NProcs
NoTask == 0

(* Inputs of the requests: the ids of two provisioned accounts and of no  *)
(* account, and request bodies <<valor, tipo, descricao>>: an ordinary and *)
(* the largest amount for both kinds, amounts that are not positive, an    *)
(* empty description and a kind that is neither "c" nor "d".               *)
UserIds == {1, 2, 999}
Amount == Limite1 \div 2
Bodies ==
    {<<Amount, "c", "pix">>, <<Amount, "d", "pix">>,
     <<MaxI32, "c", "pix">>, <<MaxI32, "d", "pix">>,
     <<-(Limite1 + 1), "c", "pix">>, <<0, "d", "">>,
     <<Amount, "c", "">>, <<Amount, "x", "pix">>}

----------------------------------------------------------------------------
(* i32 arithmetic.  The sums are never formed outside the 32-bit range:    *)
(* an overflowing result is computed from operands shifted by 2^31.        *)

AddOverflows(a, b) ==
    IF b >= 0 THEN a > MaxI32 - b ELSE a < MinI32 - b

WrappingAdd(a, b) ==
    IF ~AddOverflows(a, b) THEN a + b
    ELSE IF b >= 0 THEN ((a - MaxI32) - 1) + ((b - MaxI32) - 1)
    ELSE ((a + MaxI32) + 1) + ((b + MaxI32) + 1)

SubOverflows(a, b) ==
    IF b <= 0 THEN a > MaxI32 + b ELSE a < MinI32 + b

WrappingSub(a, b) ==
    IF ~SubOverflows(a, b) THEN a - b
    ELSE IF b <= 0 THEN ((a - MaxI32) - 1) - ((b + MaxI32) + 1)
    ELSE ((a + MaxI32) + 1) - ((b - MaxI32) - 1)

----------------------------------------------------------------------------
(* AppState::new *)

InitialUsers ==
    [u \in 1..5 |->
        [id |-> u,
         limite |-> CASE u = 1 -> Limite1
                      [] u = 2 -> Limite2
                      [] u = 3 -> Limite3
                      [] u = 4 -> Limite4
                      [] u = 5 -> Limite5,
         saldo |-> 0]]

EmptyStatements == [k \in {} |-> 0]

(* HashMap iteration order.  The order of statements.iter() is the order   *)
(* of the buckets, decided by the hash of the keys under the map's random  *)
(* seed: unspecified, but the same for the same map contents.  The hash is *)
(* abstracted to a multiplicative hash; ties are broken by the key.  The   *)
(* seeds give a scattered order and the order of decreasing keys.          *)

HashSeeds == {5, HashMod - 1}

Bucket(seed, k) == (k * seed) % HashMod

IterBefore(seed, j, k) ==
    \/ Bucket(seed, j) < Bucket(seed, k)
    \/ Bucket(seed, j) = Bucket(seed, k) /\ j <= k

RECURSIVE IterOrder(_, _)
IterOrder(keys, seed) ==
    IF keys = {} THEN <<>>
    ELSE LET first == CHOOSE j \in keys : \A k \in keys : IterBefore(seed, j, k)
         IN  <<first>> \o IterOrder(keys \ {first}, seed)

----------------------------------------------------------------------------
(* Requests and responses *)

NoReq == [op |-> "none", user_id |-> 0, valor |-> 0, tipo |-> "", descricao |-> ""]

TransactionReq(u, v, t, d) ==
    [op |-> "transacoes", user_id |-> u, valor |-> v, tipo |-> t, descricao |-> d]

StatementReq(u) ==
    [op |-> "extrato", user_id |-> u, valor |-> 0, tipo |-> "", descricao |-> ""]

NoResp == [status |-> "none", limite |-> 0, saldo |-> 0, ultimas_transacoes |-> <<>>]

Response(st, l, s, ts) ==
    [status |-> st, limite |-> l, saldo |-> s, ultimas_transacoes |-> ts]

NoBalance == [total |-> 0, limite |-> 0]

LastTransaction(s) ==
    [valor |-> s.valor, tipo |-> s.tipo, descricao |-> s.descricao]

Init ==
    /\ users = InitialUsers
    /\ statements = EmptyStatements
    /\ hash_seed \in HashSeeds
    /\ overflow_checks \in BOOLEAN
    /\ users_owner = NoTask
    /\ statements_owner = NoTask
    /\ pc = [p \in Procs |-> "idle"]
    /\ req = [p \in Procs |-> NoReq]
    /\ new_balance = [p \in Procs |-> 0]
    /\ hack_id = [p \in Procs |-> 0]
    /\ balance = [p \in Procs |-> NoBalance]
    /\ visited = [p \in Procs |-> <<>>]
    /\ resp = [p \in Procs |-> NoResp]
    /\ nreq = 0

----------------------------------------------------------------------------
(* tokio::sync::Mutex::lock().await: the task goes on once the mutex is    *)
(* free, and holds it until the guard is dropped.                          *)

(* A lock() that does not wait. *)
MutexFree_NoWait(owner) == TRUE

MutexFree(owner) == owner = NoTask

(* HashMap::insert: stores the value under the key, replacing any value    *)
(* already stored under it.                                                *)
Insert(map, k, v) ==
    [j \in (DOMAIN map) \cup {k} |-> IF j = k THEN v ELSE map[j]]

(* The arms of `match new_statement.tipo.as_str()`. *)
(* A credit arm that also takes every kind that is not a debit. *)
IsCredit_Default(tipo) == tipo # "d"

IsCredit(tipo) == tipo = "c"
IsDebit(tipo) == tipo = "d"

(* users.get(&user_id) / users.get_mut(&user_id) is Some. *)
UserFound(user_id) == user_id \in DOMAIN users

(* The server hands a request to a task. *)
Accept(p, r) ==
    /\ pc[p] = "idle"
    /\ pc' = [pc EXCEPT ![p] = "lock_users"]
    /\ req' = [req EXCEPT ![p] = r]
    /\ nreq' = nreq + 1
    /\ UNCHANGED <<users, statements, hash_seed, overflow_checks, users_owner,
                   statements_owner, new_balance, hack_id, balance, visited, resp>>

Requests ==
    {TransactionReq(u, b[1], b[2], b[3]) : u \in UserIds, b \in Bodies}
    \cup {StatementReq(u) : u \in UserIds}

Receive(p) ==
    /\ nreq < MaxReqs
    /\ \E r \in Requests : Accept(p, r)

(* let users = state.user_state.lock().await *)
LockUsers(p) ==
    /\ pc[p] = "lock_users"
    /\ MutexFree(users_owner)
    /\ users_owner' = p
    /\ pc' = [pc EXCEPT ![p] = "lock_statements"]
    /\ UNCHANGED <<users, statements, hash_seed, overflow_checks,
                   statements_owner, req, new_balance, hack_id, balance, visited, resp, nreq>>

(* let statements = state.statement_state.lock().await *)
LockStatements(p) ==
    /\ pc[p] = "lock_statements"
    /\ MutexFree(statements_owner)
    /\ statements_owner' = p
    /\ pc' = [pc EXCEPT ![p] = "body"]
    /\ UNCHANGED <<users, statements, hash_seed, overflow_checks,
                   users_owner, req, new_balance, hack_id, balance, visited, resp, nreq>>

(* The handler returns r: its locals are dead and its guards are dropped   *)
(* next, statements first (reverse order of declaration).                  *)
Return(p, r) ==
    /\ resp' = [resp EXCEPT ![p] = r]
    /\ pc' = [pc EXCEPT ![p] = "drop_statements"]
    /\ new_balance' = [new_balance EXCEPT ![p] = 0]
    /\ hack_id' = [hack_id EXCEPT ![p] = 0]
    /\ balance' = [balance EXCEPT ![p] = NoBalance]

(* An arithmetic overflow panic unwinds the task: no response is sent and  *)
(* the guards are dropped by the unwinding.                                *)
Panic(p) == Return(p, Response("panic", 0, 0, <<>>))

(* An unknown account answered as a rejected transaction. *)
TransactionNotFound_Unprocessable(p) ==
    /\ pc[p] = "body"
    /\ req[p].op = "transacoes"
    /\ ~UserFound(req[p].user_id)
    /\ Return(p, Response("unprocessable", 0, 0, <<>>))
    /\ UNCHANGED <<users, statements, hash_seed, overflow_checks, users_owner,
                   statements_owner, req, visited, nreq>>

(* create_transaction, users.get_mut(&user_id) is None *)
TransactionNotFound(p) ==
    /\ pc[p] = "body"
    /\ req[p].op = "transacoes"
    /\ ~UserFound(req[p].user_id)
    /\ Return(p, Response("not_found", 0, 0, <<>>))
    /\ UNCHANGED <<users, statements, hash_seed, overflow_checks, users_owner,
                   statements_owner, req, visited, nreq>>

(* create_transaction, arm `_ => UnprocessableEntity` *)
InvalidTipo(p) ==
    /\ pc[p] = "body"
    /\ req[p].op = "transacoes"
    /\ UserFound(req[p].user_id)
    /\ ~IsCredit(req[p].tipo)
    /\ ~IsDebit(req[p].tipo)
    /\ Return(p, Response("unprocessable", 0, 0, <<>>))
    /\ UNCHANGED <<users, statements, hash_seed, overflow_checks, users_owner,
                   statements_owner, req, visited, nreq>>

(* A credit that is applied to every account of the map. *)
CreditBalance_AllAccounts(p) ==
    /\ pc[p] = "body"
    /\ req[p].op = "transacoes"
    /\ UserFound(req[p].user_id)
    /\ IsCredit(req[p].tipo)
    /\ LET u == req[p].user_id
           v == req[p].valor
       IN  IF overflow_checks /\ AddOverflows(users[u].saldo, v)
           THEN /\ Panic(p)
                /\ UNCHANGED users
           ELSE /\ users' = [w \in DOMAIN users |->
                                [users[w] EXCEPT !.saldo = WrappingAdd(users[w].saldo, v)]]
                /\ new_balance' = [new_balance EXCEPT
                                      ![p] = WrappingAdd(users[u].saldo, v)]
                /\ pc' = [pc EXCEPT ![p] = "credit_hack_id"]
                /\ UNCHANGED <<resp, balance, hack_id>>
    /\ UNCHANGED <<statements, hash_seed, overflow_checks, users_owner,
                   statements_owner, req, visited, nreq>>

(* arm "c": let balance = user.saldo + new_statement.valor;                *)
(*          user.saldo = balance;                                           *)
CreditBalance(p) ==
    /\ pc[p] = "body"
    /\ req[p].op = "transacoes"
    /\ UserFound(req[p].user_id)
    /\ IsCredit(req[p].tipo)
    /\ LET u == req[p].user_id
           v == req[p].valor
       IN  IF overflow_checks /\ AddOverflows(users[u].saldo, v)
           THEN /\ Panic(p)
                /\ UNCHANGED users
           ELSE /\ users' = [users EXCEPT ![u].saldo = WrappingAdd(users[u].saldo, v)]
                /\ new_balance' = [new_balance EXCEPT
                                      ![p] = WrappingAdd(users[u].saldo, v)]
                /\ pc' = [pc EXCEPT ![p] = "credit_hack_id"]
                /\ UNCHANGED <<resp, balance, hack_id>>
    /\ UNCHANGED <<statements, hash_seed, overflow_checks, users_owner,
                   statements_owner, req, visited, nreq>>

(* A sequence id counted per account instead of over the whole log. *)
CreditHackId_PerAccount(p) ==
    /\ pc[p] = "credit_hack_id"
    /\ hack_id' = [hack_id EXCEPT
                      ![p] = Cardinality({k \in DOMAIN statements :
                                 statements[k].user_id = req[p].user_id}) + 1]
    /\ pc' = [pc EXCEPT ![p] = "credit_insert"]
    /\ UNCHANGED <<users, statements, hash_seed, overflow_checks, users_owner,
                   statements_owner, req, new_balance, balance, visited, resp, nreq>>

(* A sequence id of len, not len + 1. *)
CreditHackId_FromZero(p) ==
    /\ pc[p] = "credit_hack_id"
    /\ hack_id' = [hack_id EXCEPT ![p] = Cardinality(DOMAIN statements)]
    /\ pc' = [pc EXCEPT ![p] = "credit_insert"]
    /\ UNCHANGED <<users, statements, hash_seed, overflow_checks, users_owner,
                   statements_owner, req, new_balance, balance, visited, resp, nreq>>

(* arm "c": let hack_id: i32 = (statements.len() + 1) as i32; *)
CreditHackId(p) ==
    /\ pc[p] = "credit_hack_id"
    /\ hack_id' = [hack_id EXCEPT ![p] = Cardinality(DOMAIN statements) + 1]
    /\ pc' = [pc EXCEPT ![p] = "credit_insert"]
    /\ UNCHANGED <<users, statements, hash_seed, overflow_checks, users_owner,
                   statements_owner, req, new_balance, balance, visited, resp, nreq>>

(* arm "c": statements.insert(hack_id, Statement {..});                     *)
(*          Success {limite: user.limite, saldo: balance}                   *)
CreditInsert(p) ==
    /\ pc[p] = "credit_insert"
    /\ LET u == req[p].user_id
       IN  /\ statements' = Insert(statements, hack_id[p],
                                   [id |-> hack_id[p],
                                    valor |-> req[p].valor,
                                    tipo |-> req[p].tipo,
                                    descricao |-> req[p].descricao,
                                    user_id |-> u])
           /\ Return(p, Response("ok", users[u].limite, new_balance[p], <<>>))
    /\ UNCHANGED <<users, hash_seed, overflow_checks, users_owner,
                   statements_owner, req, visited, nreq>>

(* arm "d": let new_balance = user.saldo - new_statement.valor; *)
DebitCompute(p) ==
    /\ pc[p] = "body"
    /\ req[p].op = "transacoes"
    /\ UserFound(req[p].user_id)
    /\ IsDebit(req[p].tipo)
    /\ LET u == req[p].user_id
           v == req[p].valor
       IN  IF overflow_checks /\ SubOverflows(users[u].saldo, v)
           THEN Panic(p)
           ELSE /\ new_balance' = [new_balance EXCEPT
                                      ![p] = WrappingSub(users[u].saldo, v)]
                /\ pc' = [pc EXCEPT ![p] = "debit_check"]
                /\ UNCHANGED <<resp, balance, hack_id>>
    /\ UNCHANGED <<users, statements, hash_seed, overflow_checks, users_owner,
                   statements_owner, req, visited, nreq>>

(* A debit that stores the new balance before it checks the limit. *)
DebitCheck_CommitFirst(p) ==
    /\ pc[p] = "debit_check"
    /\ LET u == req[p].user_id
       IN  /\ users' = [users EXCEPT ![u].saldo = new_balance[p]]
           /\ IF new_balance[p] < -users[u].limite
              THEN Return(p, Response("unprocessable", 0, 0, <<>>))
              ELSE Return(p, Response("ok", users[u].limite, new_balance[p], <<>>))
    /\ UNCHANGED <<statements, hash_seed, overflow_checks, users_owner,
                   statements_owner, req, visited, nreq>>

(* arm "d": if new_balance < -user.limite { return UnprocessableEntity }    *)
(*          else { user.saldo = new_balance; Success {limite, saldo} }      *)
DebitCheck(p) ==
    /\ pc[p] = "debit_check"
    /\ LET u == req[p].user_id
       IN  IF new_balance[p] < -users[u].limite
           THEN /\ Return(p, Response("unprocessable", 0, 0, <<>>))
                /\ UNCHANGED users
           ELSE /\ users' = [users EXCEPT ![u].saldo = new_balance[p]]
                /\ Return(p, Response("ok", users[u].limite, new_balance[p], <<>>))
    /\ UNCHANGED <<statements, hash_seed, overflow_checks, users_owner,
                   statements_owner, req, visited, nreq>>

----------------------------------------------------------------------------
(* get_bank_statement *)

(* users.get(&user_id) is None *)
StatementNotFound(p) ==
    /\ pc[p] = "body"
    /\ req[p].op = "extrato"
    /\ ~UserFound(req[p].user_id)
    /\ Return(p, Response("not_found", 0, 0, <<>>))
    /\ UNCHANGED <<users, statements, hash_seed, overflow_checks, users_owner,
                   statements_owner, req, visited, nreq>>

(* let balance = Balance {total: user.saldo, limite: user.limite, ..} *)
StatementBalance(p) ==
    /\ pc[p] = "body"
    /\ req[p].op = "extrato"
    /\ UserFound(req[p].user_id)
    /\ balance' = [balance EXCEPT ![p] = [total |-> users[req[p].user_id].saldo,
                                          limite |-> users[req[p].user_id].limite]]
    /\ pc' = [pc EXCEPT ![p] = "last_transactions"]
    /\ UNCHANGED <<users, statements, hash_seed, overflow_checks, users_owner,
                   statements_owner, req, new_balance, hack_id, visited, resp, nreq>>

(* statements.iter().filter(|(_, s)| s.user_id == user_id) *)
FilteredIter(map, seed, user_id) ==
    SelectSeq(IterOrder(DOMAIN map, seed), LAMBDA k : map[k].user_id = user_id)

(* A loop that breaks one record late: len() > 10. *)
RECURSIVE PushLoop_BreakLate(_, _)
PushLoop_BreakLate(iter, pushed) ==
    IF iter = <<>> THEN pushed
    ELSE IF Len(pushed) > StatementLimit THEN pushed
    ELSE PushLoop_BreakLate(Tail(iter), Append(pushed, Head(iter)))

(* for .. in iter { if last_transactions.len() >= 10 { break; } push(..) }  *)
(* as the keys of the statements pushed, in the order pushed.               *)
RECURSIVE PushLoop(_, _)
PushLoop(iter, pushed) ==
    IF iter = <<>> THEN pushed
    ELSE IF Len(pushed) >= StatementLimit THEN pushed
    ELSE PushLoop(Tail(iter), Append(pushed, Head(iter)))

(* A loop that takes the records it returns out of the log. *)
StatementList_Consume(p) ==
    /\ pc[p] = "last_transactions"
    /\ LET pushed == PushLoop(FilteredIter(statements, hash_seed, req[p].user_id), <<>>)
           taken == {pushed[i] : i \in 1..Len(pushed)}
       IN  /\ visited' = [visited EXCEPT ![p] = pushed]
           /\ statements' = [k \in (DOMAIN statements) \ taken |-> statements[k]]
           /\ Return(p, Response("ok", balance[p].limite, balance[p].total,
                                 [i \in 1..Len(pushed) |->
                                     LastTransaction(statements[pushed[i]])]))
    /\ UNCHANGED <<users, hash_seed, overflow_checks, users_owner,
                   statements_owner, req, nreq>>

(* The for loop and Success(StatementResponse {saldo: balance,              *)
(* ultimas_transacoes: last_transactions}).                                 *)
StatementList(p) ==
    /\ pc[p] = "last_transactions"
    /\ LET pushed == PushLoop(FilteredIter(statements, hash_seed, req[p].user_id), <<>>)
       IN  /\ visited' = [visited EXCEPT ![p] = pushed]
           /\ Return(p, Response("ok", balance[p].limite, balance[p].total,
                                 [i \in 1..Len(pushed) |->
                                     LastTransaction(statements[pushed[i]])]))
    /\ UNCHANGED <<users, statements, hash_seed, overflow_checks, users_owner,
                   statements_owner, req, nreq>>

----------------------------------------------------------------------------
(* The guards go out of scope. *)

DropStatements(p) ==
    /\ pc[p] = "drop_statements"
    /\ statements_owner' = NoTask
    /\ pc' = [pc EXCEPT ![p] = "drop_users"]
    /\ UNCHANGED <<users, statements, hash_seed, overflow_checks, users_owner,
                   req, new_balance, hack_id, balance, visited, resp, nreq>>

(* The last guard is dropped and the value returned is handed to axum: the *)
(* task has served its request.                                            *)
DropUsers(p) ==
    /\ pc[p] = "drop_users"
    /\ users_owner' = NoTask
    /\ pc' = [pc EXCEPT ![p] = "idle"]
    /\ req' = [req EXCEPT ![p] = NoReq]
    /\ resp' = [resp EXCEPT ![p] = NoResp]
    /\ visited' = [visited EXCEPT ![p] = <<>>]
    /\ UNCHANGED <<users, statements, hash_seed, overflow_checks,
                   statements_owner, new_balance, hack_id, balance, nreq>>

(* The same, for a task that serves one request only: the response stays   *)
(* on record as what its client received.                                  *)
DropUsersEnd(p) ==
    /\ pc[p] = "drop_users"
    /\ users_owner' = NoTask
    /\ pc' = [pc EXCEPT ![p] = "done"]
    /\ UNCHANGED <<users, statements, hash_seed, overflow_checks,
                   statements_owner, req, new_balance, hack_id, balance, visited, resp, nreq>>

----------------------------------------------------------------------------
Next ==
    \E p \in Procs :
        \/ Receive(p)
        \/ LockUsers(p)
        \/ LockStatements(p)
        \/ TransactionNotFound(p)
        \/ InvalidTipo(p)
        \/ CreditBalance(p)
        \/ CreditHackId(p)
        \/ CreditInsert(p)
        \/ DebitCompute(p)
        \/ DebitCheck(p)
        \/ StatementNotFound(p)
        \/ StatementBalance(p)
        \/ StatementList(p)
        \/ DropStatements(p)
        \/ DropUsers(p)

Spec == Init /\ [][Next]_vars

----------------------------------------------------------------------------
(* Scheduling.  The runtime polls every task that can go on, and the tokio *)
(* mutex hands the lock to its waiters in the order they asked for it, so  *)
(* a task waiting in lock() is not passed over for ever.                   *)

Handler(p) ==
    \/ LockStatements(p)
    \/ TransactionNotFound(p)
    \/ InvalidTipo(p)
    \/ CreditBalance(p)
    \/ CreditHackId(p)
    \/ CreditInsert(p)
    \/ DebitCompute(p)
    \/ DebitCheck(p)
    \/ StatementNotFound(p)
    \/ StatementBalance(p)
    \/ StatementList(p)
    \/ DropStatements(p)
    \/ DropUsers(p)

SpecFair ==
    /\ Spec
    /\ \A p \in Procs : WF_vars(Handler(p)) /\ SF_vars(LockUsers(p))

----------------------------------------------------------------------------
(* A long history on one account: tasks credit account 1 and read its      *)
(* statement, until the log holds more records than a statement returns;   *)
(* they also read the statement of account 2, which has no record.         *)

HistoryRequests ==
    {TransactionReq(1, Amount, "c", "pix"), StatementReq(1), StatementReq(2)}

ReceiveHistory(p) ==
    /\ nreq < MaxHistory + 1
    /\ \E r \in HistoryRequests : Accept(p, r)

NextHistory ==
    \E p \in Procs :
        \/ ReceiveHistory(p)
        \/ LockUsers(p)
        \/ LockStatements(p)
        \/ CreditBalance(p)
        \/ CreditHackId(p)
        \/ CreditInsert(p)
        \/ StatementBalance(p)
        \/ StatementList(p)
        \/ DropStatements(p)
        \/ DropUsers(p)

SpecHistory == Init /\ [][NextHistory]_vars

----------------------------------------------------------------------------
(* Concurrent debits: every task serves one debit, all of the same amount  *)
(* on the same account.  They start from the state the server is in after  *)
(* one accepted debit of Amount on account 2.                              *)

StartSaldo(u) == IF u = 2 THEN -Amount ELSE 0

InitDebits ==
    /\ users = [u \in DOMAIN InitialUsers |->
                   [InitialUsers[u] EXCEPT !.saldo = StartSaldo(u)]]
    /\ statements = EmptyStatements
    /\ hash_seed \in HashSeeds
    /\ overflow_checks \in BOOLEAN
    /\ users_owner = NoTask
    /\ statements_owner = NoTask
    /\ pc = [p \in Procs |-> "idle"]
    /\ req = [p \in Procs |-> NoReq]
    /\ new_balance = [p \in Procs |-> 0]
    /\ hack_id = [p \in Procs |-> 0]
    /\ balance = [p \in Procs |-> NoBalance]
    /\ visited = [p \in Procs |-> <<>>]
    /\ resp = [p \in Procs |-> NoResp]
    /\ nreq = 1

DebitAmounts == {Limite2 - Amount, Amount, MaxI32}

ReceiveDebit(p) ==
    \E u \in {1, 2}, a \in DebitAmounts :
        /\ \A q \in Procs : req[q].op = "none" \/ (req[q].user_id = u /\ req[q].valor = a)
        /\ Accept(p, TransactionReq(u, a, "d", "pix"))

NextDebits ==
    \E p \in Procs :
        \/ ReceiveDebit(p)
        \/ LockUsers(p)
        \/ LockStatements(p)
        \/ DebitCompute(p)
        \/ DebitCheck(p)
        \/ DropStatements(p)
        \/ DropUsersEnd(p)

SpecDebits == InitDebits /\ [][NextDebits]_vars

----------------------------------------------------------------------------
(* Repeated reads: after some transactions of Amount on accounts 1 and 2,  *)
(* every task reads one statement, and no transaction is received once a   *)
(* read has been.                                                          *)

ReadSetups == {TransactionReq(u, Amount, t, "pix") : u \in {1, 2}, t \in {"c", "d"}}

ReceiveSetup(p) ==
    /\ nreq < MaxReqs
    /\ \A q \in Procs : req[q].op # "extrato"
    /\ \E r \in ReadSetups : Accept(p, r)

ReceiveRead(p) ==
    /\ \A q \in Procs : req[q].op # "transacoes"
    /\ \E u \in {1, 2} : Accept(p, StatementReq(u))

NextReads ==
    \E p \in Procs :
        \/ ReceiveSetup(p)
        \/ ReceiveRead(p)
        \/ LockUsers(p)
        \/ LockStatements(p)
        \/ CreditBalance(p)
        \/ CreditHackId(p)
        \/ CreditInsert(p)
        \/ DebitCompute(p)
        \/ DebitCheck(p)
        \/ StatementBalance(p)
        \/ StatementList(p)
        \/ DropStatements(p)
        \/ (req[p].op = "transacoes" /\ DropUsers(p))
        \/ (req[p].op = "extrato" /\ DropUsersEnd(p))

SpecReads == Init /\ [][NextReads]_vars

----------------------------------------------------------------------------
(* Properties *)

(* The handler of task p has produced its return value. *)
Returned(p) == pc[p] \in {"drop_statements", "drop_users", "done"}

Provisioned == 1..5

(* Keys of the records of an account in the log. *)
RecordsOf(u) == {k \in DOMAIN statements : statements[k].user_id = u}

(* C1: in every reachable state every account has saldo >= -limite. *)
C1_BalanceWithinLimit ==
    \A u \in DOMAIN users : users[u].saldo >= -users[u].limite

(* C2: N concurrent debits of the same positive amount a on one account    *)
(* with starting balance b and limit L: once all have returned, exactly    *)
(* min(N, floor((b+L)/a)) were accepted, the others were rejected as       *)
(* unprocessable, and the balance is b minus the accepted amounts.         *)
C2_ExactlyKAccepted ==
    (\A p \in Procs : pc[p] = "done") =>
        LET u == req[1].user_id
            a == req[1].valor
            b == StartSaldo(u)
            k == (b + users[u].limite) \div a
            m == IF NProcs < k THEN NProcs ELSE k
            accepted == {p \in Procs : resp[p].status = "ok"}
        IN  /\ Cardinality(accepted) = m
            /\ \A p \in Procs \ accepted : resp[p].status = "unprocessable"
            /\ users[u].saldo = b - m * a

(* C3: the step by which a transaction is accepted adds exactly one record *)
(* to the log, carrying the account, amount, kind and description of the   *)
(* request.                                                                *)
C3_AcceptedAppendsRecord ==
    [][\A p \in Procs :
          (req[p].op = "transacoes" /\ resp[p].status # "ok" /\ resp'[p].status = "ok")
          => /\ Cardinality(DOMAIN statements') = Cardinality(DOMAIN statements) + 1
             /\ \E k \in (DOMAIN statements') \ (DOMAIN statements) :
                   /\ statements'[k].user_id = req[p].user_id
                   /\ statements'[k].valor = req[p].valor
                   /\ statements'[k].tipo = req[p].tipo
                   /\ statements'[k].descricao = req[p].descricao]_vars

(* C4: the balance, the limit and the transaction list a statement read    *)
(* returns are those of one and the same state of the account, a state in  *)
(* which no transaction is half done: with the response in hand, the       *)
(* stored balance and the log still are what the response reports and      *)
(* every other task is before its critical section.                        *)
C4_ConsistentSnapshot ==
    \A p \in Procs :
        (req[p].op = "extrato" /\ Returned(p) /\ resp[p].status = "ok") =>
            LET u == req[p].user_id
                now == PushLoop(FilteredIter(statements, hash_seed, u), <<>>)
            IN  /\ resp[p].saldo = users[u].saldo
                /\ resp[p].limite = users[u].limite
                /\ visited[p] = now
                /\ resp[p].ultimas_transacoes =
                      [i \in 1..Len(now) |-> LastTransaction(statements[now[i]])]
                /\ \A q \in Procs \ {p} : pc[q] \in {"idle", "lock_users", "done"}

C4_Witness ==
    \E p \in Procs, q \in Procs :
        /\ p # q
        /\ req[p].op = "extrato" /\ pc[p] = "drop_statements" /\ resp[p].status = "ok"
        /\ Len(resp[p].ultimas_transacoes) >= 2
        /\ req[q].op = "transacoes" /\ req[q].user_id = req[p].user_id
        /\ pc[q] = "lock_users"

(* C5: the list of every statement is in strictly decreasing order of      *)
(* sequence id, and starts with the newest record of the account.          *)
C5_MostRecentFirst ==
    \A p \in Procs :
        (req[p].op = "extrato" /\ Returned(p) /\ resp[p].status = "ok") =>
            /\ \A i \in 1..Len(visited[p]), j \in 1..Len(visited[p]) :
                  i < j => visited[p][i] > visited[p][j]
            /\ RecordsOf(req[p].user_id) # {} =>
                  /\ visited[p] # <<>>
                  /\ \A k \in RecordsOf(req[p].user_id) : visited[p][1] >= k

(* C6: when the account has more than 10 records, a statement returns the  *)
(* 10 records of the account with the highest sequence ids.                *)
C6_TenMostRecent ==
    \A p \in Procs :
        (/\ req[p].op = "extrato" /\ Returned(p) /\ resp[p].status = "ok"
         /\ Cardinality(RecordsOf(req[p].user_id)) > StatementLimit) =>
            LET mine == RecordsOf(req[p].user_id)
                newest == {k \in mine :
                              Cardinality({j \in mine : j > k}) < StatementLimit}
            IN  {visited[p][i] : i \in 1..Len(visited[p])} = newest

(* C7: a debit rejected because its new balance is below -limite returns   *)
(* the unprocessable outcome and changes no balance and not the log.       *)
C7_RejectedDebitChangesNothing ==
    [][\A p \in Procs :
          (/\ pc[p] = "debit_check"
           /\ pc'[p] # "debit_check"
           /\ new_balance[p] < -users[req[p].user_id].limite)
          => /\ resp'[p].status = "unprocessable"
             /\ users' = users
             /\ statements' = statements]_vars

C7_Witness ==
    \E p \in Procs :
        /\ req[p].op = "transacoes" /\ req[p].tipo = "d" /\ req[p].valor > 0
        /\ req[p].user_id \in Provisioned
        /\ pc[p] = "drop_statements"
        /\ resp[p].status = "unprocessable"
        /\ \E u \in Provisioned : users[u].saldo # 0

(* C8: the handler's step on a transaction of an existing account whose    *)
(* amount is zero or negative returns the unprocessable outcome and        *)
(* changes no balance and not the log.                                     *)
C8_NonPositiveRejected ==
    [][\A p \in Procs :
          (/\ pc[p] = "body"
           /\ pc'[p] # "body"
           /\ req[p].op = "transacoes"
           /\ req[p].user_id \in Provisioned
           /\ req[p].valor <= 0)
          => /\ resp'[p].status = "unprocessable"
             /\ users' = users
             /\ statements' = statements]_vars

(* C9: the handler's step on a transaction of an existing account whose    *)
(* kind is neither "c" nor "d" returns the unprocessable outcome and       *)
(* changes no balance and not the log.                                     *)
C9_UnknownKindRejected ==
    [][\A p \in Procs :
          (/\ pc[p] = "body"
           /\ pc'[p] # "body"
           /\ req[p].op = "transacoes"
           /\ req[p].user_id \in Provisioned
           /\ req[p].tipo \notin {"c", "d"})
          => /\ resp'[p].status = "unprocessable"
             /\ users' = users
             /\ statements' = statements]_vars

C9_Witness ==
    \E p \in Procs :
        /\ req[p].op = "transacoes" /\ req[p].tipo \notin {"c", "d"}
        /\ req[p].user_id \in Provisioned
        /\ pc[p] = "drop_statements"
        /\ resp[p].status = "unprocessable"

(* C10: for an id that is none of the five provisioned accounts, both the  *)
(* transaction and the statement handler return not-found and change no    *)
(* balance and not the log.                                                *)
C10_UnknownAccountNotFound ==
    [][\A p \in Procs :
          (/\ pc[p] = "body"
           /\ pc'[p] # "body"
           /\ req[p].user_id \notin Provisioned)
          => /\ resp'[p].status = "not_found"
             /\ users' = users
             /\ statements' = statements]_vars

C10_Witness ==
    \E p \in Procs :
        /\ req[p].op = "transacoes" /\ req[p].user_id \notin Provisioned
        /\ pc[p] = "drop_statements"
        /\ resp[p].status = "not_found"
        /\ statements # EmptyStatements

(* C11: every step keeps every record of the log as it is, under the same  *)
(* key: no record is changed, replaced or removed, so the log never        *)
(* shrinks.                                                                *)
C11_LogAppendOnly ==
    [][/\ \A k \in DOMAIN statements :
             k \in DOMAIN statements' /\ statements'[k] = statements[k]
       /\ Cardinality(DOMAIN statements') >= Cardinality(DOMAIN statements)]_vars

C11_Witness ==
    \E p \in Procs :
        /\ req[p].tipo = "c" /\ pc[p] = "drop_statements" /\ resp[p].status = "ok"
        /\ Cardinality(DOMAIN statements) >= 2
        /\ \E j \in DOMAIN statements, k \in DOMAIN statements :
              statements[j].user_id # statements[k].user_id

(* C12: in every state the keys of a log of n records are exactly 1..n and *)
(* every record carries its key as its id; and every insert adds one key,  *)
(* larger than every key already in the log.                               *)
C12_SequenceIds ==
    /\ [](/\ DOMAIN statements = 1..Cardinality(DOMAIN statements)
          /\ \A k \in DOMAIN statements : statements[k].id = k)
    /\ [][\A p \in Procs :
             (pc[p] = "credit_insert" /\ pc'[p] # "credit_insert")
             => \E k \in (DOMAIN statements') \ (DOMAIN statements) :
                   /\ DOMAIN statements' = (DOMAIN statements) \cup {k}
                   /\ \A j \in DOMAIN statements : k > j]_vars

C12_Witness ==
    \E p \in Procs, q \in Procs :
        /\ p # q
        /\ req[p].tipo = "c" /\ pc[p] = "drop_statements" /\ resp[p].status = "ok"
        /\ req[q].tipo = "c" /\ pc[q] = "lock_users"
        /\ req[q].user_id # req[p].user_id /\ req[q].user_id \in Provisioned
        /\ Cardinality(DOMAIN statements) >= 1

(* C13: the step that answers a debit of a positive amount v on an         *)
(* existing account with balance b and limit L accepts it if and only if   *)
(* b - v >= -L; an accepted debit stores b - v and reports limite = L and  *)
(* saldo = b - v.  (b - v is below every i32, hence below -L, when the     *)
(* subtraction overflows.)                                                 *)
C13_DebitAcceptedIff ==
    [][\A p \in Procs :
          (/\ req[p].op = "transacoes" /\ req[p].tipo = "d" /\ req[p].valor > 0
           /\ req[p].user_id \in Provisioned
           /\ resp[p].status = "none" /\ resp'[p].status # "none")
          => LET u == req[p].user_id
                 b == users[u].saldo
                 v == req[p].valor
                 L == users[u].limite
                 within == ~SubOverflows(b, v) /\ b - v >= -L
             IN  /\ (resp'[p].status = "ok") <=> within
                 /\ within => /\ users'[u].saldo = b - v
                              /\ resp'[p].limite = L
                              /\ resp'[p].saldo = b - v]_vars

(* C14: a credit of a positive amount v on an existing account with        *)
(* balance b and limit L stores b + v and then returns success with        *)
(* limite = L and saldo = the stored balance.                              *)
C14_CreditAlwaysSucceeds ==
    [][\A p \in Procs :
          (/\ req[p].op = "transacoes" /\ req[p].tipo = "c" /\ req[p].valor > 0
           /\ req[p].user_id \in Provisioned)
          => LET u == req[p].user_id
                 b == users[u].saldo
                 v == req[p].valor
             IN  /\ (pc[p] = "body" /\ pc'[p] # "body")
                    => /\ pc'[p] = "credit_hack_id"
                       /\ ~AddOverflows(b, v)
                       /\ users'[u].saldo = b + v
                 /\ (pc[p] = "credit_insert" /\ pc'[p] # "credit_insert")
                    => /\ resp'[p].status = "ok"
                       /\ resp'[p].limite = users[u].limite
                       /\ resp'[p].saldo = b]_vars

(* C15: two statement reads of the same account with no transaction in    *)
(* between return the same balance, limit and list, in the same order; and *)
(* no step of a statement read changes a balance or the log.               *)
C15_ReadsIdempotent ==
    /\ [](\A p \in Procs, q \in Procs :
             (/\ req[p].op = "extrato" /\ pc[p] = "done"
              /\ req[q].op = "extrato" /\ pc[q] = "done"
              /\ req[p].user_id = req[q].user_id)
             => /\ resp[p].status = "ok"
                /\ resp[p] = resp[q]
                /\ visited[p] = visited[q])
    /\ [][\A p \in Procs :
             (req[p].op = "extrato" /\ pc'[p] # pc[p])
             => users' = users /\ statements' = statements]_vars

C15_Witness ==
    \E p \in Procs, q \in Procs :
        /\ p # q
        /\ req[p].op = "extrato" /\ pc[p] = "done"
        /\ req[q].op = "extrato" /\ pc[q] = "done"
        /\ req[p].user_id = req[q].user_id
        /\ Len(resp[p].ultimas_transacoes) >= 2
        /\ resp[q].saldo # 0

(* C16: a transaction request whose kind is neither "c" nor "d" ends       *)
(* unprocessable also when its account id is unknown, validation coming    *)
(* before the account lookup.                                              *)
C16_ValidationFirst ==
    \A p \in Procs :
        (/\ req[p].op = "transacoes" /\ Returned(p)
         /\ req[p].tipo \notin {"c", "d"}
         /\ req[p].user_id \notin Provisioned)
        => resp[p].status = "unprocessable"

(* The outcomes a handler can return. *)
TerminalOutcomes == {"ok", "not_found", "unprocessable"}

(* Every request that has started returns. *)
RequestsTerminate == \A p \in Procs : (pc[p] = "lock_users") ~> Returned(p)

(* While a request is in progress some task can take a step. *)
NoDeadlock ==
    (\E p \in Procs : pc[p] # "idle") => ENABLED (\E p \in Procs : LockUsers(p) \/ Handler(p))

(* The statements mutex is only held by the holder of the users mutex, and *)
(* a task holds a mutex only between its lock() and the drop of the guard. *)
LocksReleased ==
    /\ statements_owner # NoTask => users_owner = statements_owner
    /\ \A p \in Procs :
          /\ pc[p] = "idle" => users_owner # p /\ statements_owner # p
          /\ users_owner = p =>
                pc[p] \notin {"idle", "lock_users"}
          /\ statements_owner = p =>
                pc[p] \notin {"idle", "lock_users", "lock_statements", "drop_users"}

(* What a handler returns is one of the three outcomes. *)
TerminalOutcome ==
    \A p \in Procs : Returned(p) => resp[p].status \in TerminalOutcomes

(* C17: every request that has started returns, with one of the outcomes   *)
(* success, not-found and unprocessable; no deadlock state is reachable;   *)
(* and a task whose request has returned holds no mutex.                   *)
C17_TerminatesAndReleases ==
    /\ RequestsTerminate
    /\ [](TerminalOutcome /\ NoDeadlock /\ LocksReleased)

(* C18: a statement for an existing account succeeds, and its list has     *)
(* min(10, n) entries for the n records of the account in the log: each    *)
(* entry is a record of that account and no record is listed twice.        *)
C18_StatementSize ==
    \A p \in Procs :
        (req[p].op = "extrato" /\ Returned(p) /\ req[p].user_id \in Provisioned) =>
            LET mine == RecordsOf(req[p].user_id)
                n == Cardinality(mine)
                list == resp[p].ultimas_transacoes
            IN  /\ resp[p].status = "ok"
                /\ Len(list) = IF n < StatementLimit THEN n ELSE StatementLimit
                /\ Len(visited[p]) = Len(list)
                /\ \A i \in 1..Len(list) :
                      /\ visited[p][i] \in mine
                      /\ list[i] = LastTransaction(statements[visited[p][i]])
                /\ \A i \in 1..Len(list), j \in 1..Len(list) :
                      i # j => visited[p][i] # visited[p][j]

C18_Witness ==
    \E p \in Procs :
        /\ req[p].op = "extrato" /\ pc[p] = "drop_users" /\ resp[p].status = "ok"
        /\ Cardinality(RecordsOf(req[p].user_id)) > StatementLimit
        /\ Len(resp[p].ultimas_transacoes) = StatementLimit

(* C19: no step changes the set of accounts, the id or the limit of an     *)
(* account; a step changes the balance of an account only when it is the   *)
(* credit or the debit step of a transaction on that very account.         *)
C19_Frame ==
    [][/\ DOMAIN users' = DOMAIN users
       /\ DOMAIN users = Provisioned
       /\ \A u \in DOMAIN users :
             /\ users'[u].id = users[u].id
             /\ users'[u].limite = users[u].limite
             /\ users'[u].saldo # users[u].saldo =>
                   \E p \in Procs :
                       /\ req[p].op = "transacoes"
                       /\ req[p].user_id = u
                       /\ pc[p] \in {"body", "debit_check"}
                       /\ pc'[p] # pc[p]]_vars

C19_Witness ==
    \E p \in Procs :
        /\ req[p].op = "transacoes" /\ req[p].user_id = 2
        /\ pc[p] = "drop_users" /\ resp[p].status = "ok"
        /\ users[2].saldo # 0
        /\ users[1].saldo # 0
        /\ users[1].limite = Limite1 /\ users[2].limite = Limite2

(* C20: whenever a transaction on an existing account reaches its balance  *)
(* computation, saldo + valor (credit) and saldo - valor (debit) are       *)
(* within the signed 32-bit range.                                         *)
C20_NoOverflow ==
    \A p \in Procs :
        (pc[p] = "body" /\ req[p].op = "transacoes" /\ UserFound(req[p].user_id)) =>
            LET saldo == users[req[p].user_id].saldo
                valor == req[p].valor
            IN  /\ IsCredit(req[p].tipo) => ~AddOverflows(saldo, valor)
                /\ IsDebit(req[p].tipo) => ~SubOverflows(saldo, valor)

====
